---- MODULE Spec2Model ----
(***************************************************************************)
(* A model of thinkr_chatbot.core.vector_store.VectorStore: the FAISS      *)
(* index and the metadata list it keeps in lock-step, the two files it     *)
(* persists them to (faiss_index.bin, metadata.pkl), and its operations.   *)
(*                                                                         *)
(* Vectors are small integer vectors and a score is their inner product,   *)
(* as IndexFlatIP computes it.  Texts are sequences of characters, so that *)
(* str.strip() is computed and not assumed.  Positions are 0-based, as in  *)
(* the code; a TLA+ sequence holds position p at p + 1.                    *)
(***************************************************************************)
EXTENDS Integers, Sequences, FiniteSets, TLC

\* ------------------------------------------------------------------ bounds

\* The most vectors the index may hold; add_documents is not offered beyond it.
MaxEntries == 2

\* The longest batch passed to add_documents / update_documents, and the
\* most queries passed to batch_similarity_search.
MaxBatch == 2

\* The largest k passed to similarity_search.
MaxK == 2

\* The most upsets in one behaviour: a persistence write that fails, an
\* interruption of the process, an encoder that raises, a store constructed
\* for another embedding model than the one before it.
MaxUpsets == 1

\* ----------------------------------------------------------------- helpers

Min(a, b) == IF a <= b THEN a ELSE b

\* The sequences over S of length at most n.
SeqsUpTo(S, n) == UNION {[1..l -> S] : l \in 0..n}

\* ------------------------------------------------------------------- texts

Whitespace == {" ", "\t", "\n"}

RECURSIVE LStrip(_)
LStrip(t) ==
    IF t # <<>> /\ Head(t) \in Whitespace THEN LStrip(Tail(t)) ELSE t

RECURSIVE RStrip(_)
RStrip(t) ==
    IF t # <<>> /\ t[Len(t)] \in Whitespace THEN RStrip(SubSeq(t, 1, Len(t) - 1)) ELSE t

\* str.strip(): leading and trailing whitespace removed.
Strip(t) == RStrip(LStrip(t))

\* ------------------------------------------------------ the embedding model

DefaultModel == "all-MiniLM-L6-v2"

OtherModel == "paraphrase-albert"

Models == {DefaultModel, OtherModel}

\* encoder.get_sentence_embedding_dimension(): fixed by the model.  The two
\* models differ in dimension; the dimensions are scaled down to 2 and 1.
Dimension(m) == IF m = DefaultModel THEN 2 ELSE 1

\* encoder.encode of one text: a synthetic embedding space with vectors of
\* differing lengths.  Leading and trailing whitespace does not change it.
Encode(m, t) ==
    LET w == Strip(t)
    IN  IF m = DefaultModel
        THEN CASE w = <<"a">> -> <<1, 0>>
               [] w = <<"b">> -> <<0, 1>>
               [] w = <<"c">> -> <<2, 2>>
               [] OTHER       -> <<0, 0>>
        ELSE CASE w = <<"a">> -> <<1>>
               [] w = <<"b">> -> <<2>>
               [] w = <<"c">> -> <<3>>
               [] OTHER       -> <<0>>

RECURSIVE Dot(_, _)
Dot(u, v) ==
    IF u = <<>> \/ v = <<>> THEN 0
    ELSE Head(u) * Head(v) + Dot(Tail(u), Tail(v))

\* --------------------------------------------------------------- documents

Doc(t, m) == [text |-> t, metadata |-> m]

\* The metadata dicts of the documents: one with a source, a page and a
\* title; one with a source only; one as chunk_text builds them, with an
\* empty source and a page.
TitledMetadata ==
    [source |-> <<"a", ".", "p", "d", "f">>, page |-> 3, title |-> <<"R", "1">>]

SourceMetadata == [source |-> <<"b", ".", "p", "d", "f">>]

ChunkMetadata == [source |-> <<>>, page |-> 1]

\* The documents batches are drawn from: two with text, one whose text is
\* only whitespace.
Docs ==
    { Doc(<<"a">>, TitledMetadata), Doc(<<"c">>, SourceMetadata),
      Doc(<<" ">>, ChunkMetadata) }

Batches == SeqsUpTo(Docs, MaxBatch)

\* Lines 98-102: the documents whose text.strip() is non-empty, in order.
RECURSIVE ValidDocs(_)
ValidDocs(docs) ==
    IF docs = <<>> THEN <<>>
    ELSE IF Strip(Head(docs).text) # <<>>
         THEN <<Head(docs)>> \o ValidDocs(Tail(docs))
         ELSE ValidDocs(Tail(docs))

\* ------------------------------------------------------------ the index

\* faiss.IndexFlatIP(d): d and the stored rows.  A row keeps, beside its
\* vector, the metadata of the document it was computed from ("of"), which
\* the program does not store: it is what the claims about positions read.
EmptyIndex(d) == [d |-> d, vecs |-> <<>>]

Row(m, doc) == [vec |-> Encode(m, doc.text), of |-> doc.metadata]

Rows(m, docs) == [i \in 1..Len(docs) |-> Row(m, docs[i])]

Metadatas(docs) == [i \in 1..Len(docs) |-> docs[i].metadata]

\* ----------------------------------------------------------- persistence

\* A file of index_path: absent, intact with its content, or torn (it
\* exists but cannot be read back, truncated by an interrupted or failed
\* write).
Intact(data) == [st |-> "intact", data |-> data]

AbsentIndexFile == [st |-> "absent", data |-> EmptyIndex(0)]

TornIndexFile == [st |-> "torn", data |-> EmptyIndex(0)]

AbsentMetaFile == [st |-> "absent", data |-> <<>>]

TornMetaFile == [st |-> "torn", data |-> <<>>]

EmptyDisk == [index |-> AbsentIndexFile, meta |-> AbsentMetaFile]

\* What can happen to _save_index's two writes: nothing goes wrong; the
\* write of faiss_index.bin fails before touching the file or after
\* truncating it; the write of metadata.pkl fails likewise.
SaveFaults == {"none", "index_unchanged", "index_torn", "meta_unchanged", "meta_torn"}

\* Lines 73-81: the files after _save_index's try block, under fault f.
SaveIndex(idx, md, dsk, f) ==
    CASE f = "none"            -> [index |-> Intact(idx), meta |-> Intact(md)]
      [] f = "index_unchanged" -> dsk
      [] f = "index_torn"      -> [dsk EXCEPT !.index = TornIndexFile]
      [] f = "meta_unchanged"  -> [index |-> Intact(idx), meta |-> dsk.meta]
      [] f = "meta_torn"       -> [index |-> Intact(idx), meta |-> TornMetaFile]

\* Lines 38-69: the store __init__ builds for model m from the files dsk.
\* "how" records the branch taken: no pair of files, a pair read, or a read
\* that raised and was caught.
LoadExistingIndex(m, dsk) ==
    IF dsk.index.st # "absent" /\ dsk.meta.st # "absent"
    THEN IF dsk.index.st = "torn" \/ dsk.meta.st = "torn"
         THEN [index |-> EmptyIndex(Dimension(m)), metadata |-> <<>>, how |-> "reset"]
         ELSE [index |-> dsk.index.data, metadata |-> dsk.meta.data, how |-> "loaded"]
    ELSE [index |-> EmptyIndex(Dimension(m)), metadata |-> <<>>, how |-> "fresh"]

\* Lines 197-204.
GetIndexStats(m, idx, md) ==
    [total_documents |-> Len(md), index_size |-> Len(idx.vecs),
     dimension |-> Dimension(m), model_name |-> m]

\* ------------------------------------------------------------------ search

\* The score IndexFlatIP.search reports with position -1 when it has fewer
\* than k vectors: the lowest float.
PadScore == -1000

Queries == {<<"a">>, <<" ">>}

\* The k a caller may pass: the positive ones, 0 and a negative one.
Ks == (-1)..MaxK

\* Thresholds a caller may pass: below every score the index can report
\* (float("-inf")), and values among the scores of the embedding space.
Thresholds == {PadScore - 1, 2}

\* Line 132: what index.search(q, k) may report.  The min(k, ntotal) best
\* rows by inner product, in non-increasing score order, then padding; which
\* of several rows of equal score comes first, or makes the cut, is left to
\* the library, so every such order is a possible report.
FaissSearch(idx, qv, k) ==
    LET n == Len(idx.vecs)
        m == Min(k, n)
        score(i) == Dot(qv, idx.vecs[i].vec)
        orders ==
            { s \in [1..m -> 1..n] :
                /\ \A i, j \in 1..m : i # j => s[i] # s[j]
                /\ \A i \in 1..(m - 1) : score(s[i]) >= score(s[i + 1])
                /\ \A j \in 1..n :
                     (\A i \in 1..m : s[i] # j) => score(j) <= score(s[m]) }
    IN  { [i \in 1..k |->
             IF i <= m THEN [score |-> score(s[i]), idx |-> s[i] - 1]
                       ELSE [score |-> PadScore, idx |-> -1]] : s \in orders }

\* Python's list[i]: the place in a TLA+ sequence of length n, 0 if i is out
\* of range (IndexError).
PyIndex(n, i) ==
    LET p == IF i >= 0 THEN i + 1 ELSE n + i + 1
    IN  IF 1 <= p /\ p <= n THEN p ELSE 0

\* Keeps without its comparison of the score with the threshold.
KeepsAnyScore(hit, md, threshold) == hit.idx < Len(md)

\* Line 136: the test a reported hit must pass to become a result.
Keeps(hit, md, threshold) == hit.idx < Len(md) /\ hit.score >= threshold

\* Lines 134-142: the results collected from the reported hits, in order.
RECURSIVE Collect(_, _, _)
Collect(raw, md, threshold) ==
    IF raw = <<>> THEN <<>>
    ELSE LET hit == Head(raw)
             rest == Collect(Tail(raw), md, threshold)
         IN  IF Keeps(hit, md, threshold)
             THEN <<[score |-> hit.score,
                     metadata |-> md[PyIndex(Len(md), hit.idx)],
                     index |-> hit.idx]>> \o rest
             ELSE rest

\* Lines 137-139: self.metadata[idx] raises IndexError for a kept hit whose
\* position is not one of the list.
CollectRaises(raw, md, threshold) ==
    \E i \in 1..Len(raw) :
        Keeps(raw[i], md, threshold) /\ PyIndex(Len(md), raw[i].idx) = 0

\* Line 145: list.sort(key=score, reverse=True), a stable sort: x goes
\* after every element of the sorted s whose score is >= its own.
RECURSIVE InsertByScore(_, _)
InsertByScore(s, x) ==
    IF s = <<>> THEN <<x>>
    ELSE IF Head(s).score >= x.score
         THEN <<Head(s)>> \o InsertByScore(Tail(s), x)
         ELSE <<x>> \o s

RECURSIVE SortByScore(_)
SortByScore(s) ==
    IF s = <<>> THEN <<>>
    ELSE InsertByScore(SortByScore(SubSeq(s, 1, Len(s) - 1)), s[Len(s)])

SearchRaised == [outcome |-> "raised", results |-> <<>>]

SearchReturned(rs) == [outcome |-> "returned", results |-> rs]

\* Lines 128-147: every outcome of the search proper, the query encoded and
\* handed to index.search with k.  index.search raises when the query's
\* dimension is not the index's.  It raises for a negative k (the arrays of
\* its results cannot have a negative width); for k = 0 it raises in the
\* builds of the library that require k > 0 and reports no hit in the others.
SearchIndexOutcomes(m, idx, md, query, k, threshold) ==
    IF idx.d # Dimension(m) \/ k < 0
    THEN {SearchRaised}
    ELSE IF k = 0
    THEN {SearchRaised, SearchReturned(<<>>)}
    ELSE { IF CollectRaises(raw, md, threshold)
           THEN SearchRaised
           ELSE SearchReturned(SortByScore(Collect(raw, md, threshold)))
           : raw \in FaissSearch(idx, Encode(m, query), k) }

\* SimilaritySearchOutcomes without its test of the query: a query without
\* text is encoded and searched for like any other.
SimilaritySearchEncodesBlank(m, idx, md, query, k, threshold) ==
    SearchIndexOutcomes(m, idx, md, query, k, threshold)

\* Lines 123-147: every outcome similarity_search may have on a store of
\* model m holding idx and md.  Lines 125-126: a query without text returns
\* before the encoder and the index are used.
SimilaritySearchOutcomes(m, idx, md, query, k, threshold) ==
    IF Strip(query) = <<>>
    THEN {SearchReturned(<<>>)}
    ELSE SearchIndexOutcomes(m, idx, md, query, k, threshold)

\* ------------------------------------------------ batch_similarity_search

QueryBatches == SeqsUpTo(Queries, MaxBatch)

\* Line 227: the test a reported hit must pass to become a result of
\* batch_similarity_search.
BatchKeeps(hit, md) == hit.idx < Len(md)

\* Lines 225-233: the results collected from the hits reported for one
\* query, in order.
RECURSIVE BatchCollect(_, _)
BatchCollect(raw, md) ==
    IF raw = <<>> THEN <<>>
    ELSE LET hit == Head(raw)
             rest == BatchCollect(Tail(raw), md)
         IN  IF BatchKeeps(hit, md)
             THEN <<[score |-> hit.score,
                     metadata |-> md[PyIndex(Len(md), hit.idx)],
                     index |-> hit.idx]>> \o rest
             ELSE rest

\* Lines 228-230: self.metadata[idx] raises IndexError for a kept hit whose
\* position is not one of the list.
BatchCollectRaises(raw, md) ==
    \E i \in 1..Len(raw) :
        BatchKeeps(raw[i], md) /\ PyIndex(Len(md), raw[i].idx) = 0

\* Lines 224-237: every outcome of the loop over the queries from the n-th
\* on: the list of their sorted results, or an exception.
RECURSIVE BatchResults(_, _, _, _, _, _)
BatchResults(m, idx, md, queries, k, n) ==
    IF n > Len(queries) THEN {SearchReturned(<<>>)}
    ELSE { IF BatchCollectRaises(raw, md) \/ rest.outcome = "raised"
           THEN SearchRaised
           ELSE SearchReturned(<<SortByScore(BatchCollect(raw, md))>> \o rest.results)
           : raw \in FaissSearch(idx, Encode(m, queries[n]), k),
             rest \in BatchResults(m, idx, md, queries, k, n + 1) }

\* Lines 212-239: every outcome batch_similarity_search may have.  No
\* queries: the empty list.  Else every query is encoded, one without text
\* too, and index.search raises as it does for similarity_search.
BatchSimilaritySearchOutcomes(m, idx, md, queries, k) ==
    IF queries = <<>> THEN {SearchReturned(<<>>)}
    ELSE IF idx.d # Dimension(m) \/ k < 0 THEN {SearchRaised}
    ELSE IF k = 0
    THEN {SearchRaised, SearchReturned([n \in 1..Len(queries) |-> <<>>])}
    ELSE BatchResults(m, idx, md, queries, k, 1)

\* --------------------------------------------------- search_with_context

\* dict.get(key, default).
Get(d, key, default) == IF key \in DOMAIN d THEN d[key] ELSE default

Digit(d) == <<"0", "1", "2", "3", "4", "5", "6", "7", "8", "9">>[d + 1]

\* str(n) of an integer n: its decimal digits, after a minus sign if n < 0.
RECURSIVE Str(_)
Str(n) ==
    IF n < 0 THEN <<"-">> \o Str(-n)
    ELSE IF n < 10 THEN <<Digit(n)>>
    ELSE Str(n \div 10) \o <<Digit(n % 10)>>

\* Line 179: the format .3f of a score, which is a whole number here.
Fixed3(score) == Str(score) \o <<".", "0", "0", "0">>

\* Line 165: the default of metadata.get for a missing source.
UnknownSource == <<"U", "n", "k", "n", "o", "w", "n", " ", "S", "o", "u", "r", "c", "e">>

\* Line 172: str(page) if page else "", page being metadata.get("page", "").
PageString(md) ==
    IF "page" \in DOMAIN md /\ md.page # 0 THEN Str(md.page) ELSE <<>>

\* Line 179: page as the f-string formats it.
PageFormatted(md) == IF "page" \in DOMAIN md THEN Str(md.page) ELSE <<>>

\* Reference naming the module by the title alone.
ReferenceByTitle(result) ==
    [module |-> Get(result.metadata, "title", <<>>),
     page   |-> PageString(result.metadata),
     score  |-> result.score,
     source |-> Get(result.metadata, "source", UnknownSource)]

\* Lines 165-175: the reference made for a result; title or source is the
\* title unless it is the empty string.
Reference(result) ==
    LET source == Get(result.metadata, "source", UnknownSource)
        title == Get(result.metadata, "title", <<>>)
    IN  [module |-> IF title # <<>> THEN title ELSE source,
         page   |-> PageString(result.metadata),
         score  |-> result.score,
         source |-> source]

\* Line 179: the context line of the result at place i + 1 (i counts from
\* 0, as enumerate does).
ContextPart(i, result) ==
    <<"[", "R", "e", "f", "e", "r", "e", "n", "c", "e", " ">>
        \o Str(i + 1) \o <<"]", " ">>
        \o Get(result.metadata, "title", <<>>)
        \o <<" ", "-", " ", "P", "a", "g", "e", " ">> \o PageFormatted(result.metadata)
        \o <<" ", "(", "R", "e", "l", "e", "v", "a", "n", "c", "e", ":", " ">>
        \o Fixed3(result.score) \o <<")">>

\* Line 181: the parts joined by newlines.
RECURSIVE JoinLines(_)
JoinLines(parts) ==
    IF parts = <<>> THEN <<>>
    ELSE IF Len(parts) = 1 THEN parts[1]
    ELSE parts[1] \o <<"\n">> \o JoinLines(Tail(parts))

\* Lines 153-182: what search_with_context returns for the results of its
\* search.
ContextOf(rs) ==
    IF rs = <<>> THEN [context |-> <<>>, references |-> <<>>]
    ELSE [context    |-> JoinLines([i \in 1..Len(rs) |-> ContextPart(i - 1, rs[i])]),
          references |-> [i \in 1..Len(rs) |-> Reference(rs[i])]]

\* -------------------------------------------------------------- the chatbot

\* thinkr_chatbot.core.chatbot.ThinkRChatbot.chat and the conversation
\* history of thinkr_chatbot.core.prompt_manager.PromptManager.  The
\* timestamps of the responses are left out.

\* The most entries the conversation history may hold: chat is not offered
\* when its two entries would go beyond it.
MaxHistory == 4

\* chatbot.py, line 78: the k chat searches with.
ChatK == 5

\* What the language model may answer.
Replies == {<<"o", "k">>}

\* chatbot.py, lines 84-92: the call of the language model raises (the
\* service fails, the key is refused), or returns a message.
LLMOutcomes ==
    {[outcome |-> "raised"]} \cup {[outcome |-> "returned", content |-> r] : r \in Replies}

\* Before any chat.
NoResponse == [response |-> <<>>]

\* prompt_manager.py, lines 64-67: add_to_history(role, content).
AddToHistory(history, role, content) ==
    Append(history, [role |-> role, content |-> content, timestamp |-> "None"])

\* prompt_manager.py, lines 89-95: the line of one reference; there is no
\* timestamp in a reference of search_with_context.
ReferenceText(ref) ==
    <<"-", " ", "*", "*">> \o ref.module \o <<"*", "*">>
        \o (IF ref.page # <<>>
            THEN <<" ", "(", "P", "a", "g", "e", ":", " ">> \o ref.page \o <<")">>
            ELSE <<>>)
        \o <<"\n">>

RECURSIVE ReferenceTexts(_)
ReferenceTexts(references) ==
    IF references = <<>> THEN <<>>
    ELSE ReferenceText(Head(references)) \o ReferenceTexts(Tail(references))

\* prompt_manager.py, lines 78-97: format_response_with_references.
FormatResponseWithReferences(response, references) ==
    IF references = <<>> THEN response
    ELSE response
           \o <<"\n", "\n", "*", "*", "R", "e", "l", "e", "v", "a", "n", "t",
              " ", "C", "o", "u", "r", "s", "e", " ", "R", "e", "f", "e",
              "r", "e", "n", "c", "e", "s", ":", "*", "*", "\n">>
           \o ReferenceTexts(references)

\* chatbot.py, lines 116-122: the response of the except branch.
ErrorResponse(error) ==
    [response |->
        <<"I", " ", "a", "p", "o", "l", "o", "g", "i", "z", "e", ",", " ",
          "b", "u", "t", " ", "I", " ", "e", "n", "c", "o", "u", "n", "t",
          "e", "r", "e", "d", " ", "a", "n", " ", "e", "r", "r", "o", "r",
          " ", "w", "h", "i", "l", "e", " ", "p", "r", "o", "c", "e", "s",
          "s", "i", "n", "g", " ", "y", "o", "u", "r", " ", "r", "e", "q",
          "u", "e", "s", "t", ".", " ", "P", "l", "e", "a", "s", "e", " ",
          "t", "r", "y", " ", "a", "g", "a", "i", "n", ".">>,
     error |-> error]

\* ChatResult recording the user's message before anything that may raise.
ChatRecordsMessageFirst(history, message, retrieval, llm) ==
    IF retrieval.outcome = "raised" \/ llm.outcome = "raised"
    THEN [conversation_history |-> AddToHistory(history, "user", message),
          response |-> ErrorResponse(IF retrieval.outcome = "raised"
                                     THEN "retrieval" ELSE "language model")]
    ELSE [conversation_history |->
              AddToHistory(AddToHistory(history, "user", message),
                           "assistant", llm.content),
          response |->
              [response |-> FormatResponseWithReferences(
                                llm.content, ContextOf(retrieval.results).references),
               raw_response |-> llm.content,
               references |-> ContextOf(retrieval.results).references,
               context_used |-> ContextOf(retrieval.results).context # <<>>]]

\* chatbot.py, lines 70-122: the conversation history and the response
\* after chat(message), retrieval being the outcome of the search of line
\* 78 (one that returned nothing when use_context is false) and llm that of
\* the call of line 84, which is not made when the search has raised.
ChatResult(history, message, retrieval, llm) ==
    IF retrieval.outcome = "raised" \/ llm.outcome = "raised"
    THEN [conversation_history |-> history,
          response |-> ErrorResponse(IF retrieval.outcome = "raised"
                                     THEN "retrieval" ELSE "language model")]
    ELSE [conversation_history |->
              AddToHistory(AddToHistory(history, "user", message),
                           "assistant", llm.content),
          response |->
              [response |-> FormatResponseWithReferences(
                                llm.content, ContextOf(retrieval.results).references),
               raw_response |-> llm.content,
               references |-> ContextOf(retrieval.results).references,
               context_used |-> ContextOf(retrieval.results).context # <<>>]]

\* ------------------------------------------------------------- the chunker

\* thinkr_chatbot.core.pdf_processor.PDFProcessor: the splitting of a page's
\* text into units ("sentences") and of the units into chunks.  A text is
\* the sequence of its characters.

Max(a, b) == IF a >= b THEN a ELSE b

\* Word w stands in text t at place p.
IsAt(t, p, w) ==
    /\ p + Len(w) - 1 <= Len(t)
    /\ SubSeq(t, p, p + Len(w) - 1) = w

\* The least of a set of places.
First(places) == CHOOSE q \in places : \A r \in places : q <= r

\* The first place from p on where w stands in t, 0 if there is none.
Find(t, p, w) ==
    LET places == {q \in p..(Len(t) - Len(w) + 1) : IsAt(t, q, w)}
    IN  IF places = {} THEN 0 ELSE First(places)

\* A run of whitespace: the first place from p on that holds none.
SkipSpace(t, p) ==
    First({q \in p..(Len(t) + 1) : q > Len(t) \/ t[q] \notin Whitespace})

\* The backquote character (U+0060), which a string of the model cannot
\* hold: it is the one character written with more than one.
BQ == "backquote"

\* Line 186: what code_pattern opens with, and what it closes with.
FenceOpen == <<BQ, BQ, BQ, "r">>

FenceClose == <<"\n", BQ, BQ, BQ>>

\* Lines 192, 200, 202.
Placeholder ==
    <<"C", "O", "D", "E", "_", "B", "L", "O", "C", "K", "_", "P", "L",
      "A", "C", "E", "H", "O", "L", "D", "E", "R">>

NoMatch == [found |-> FALSE, body |-> <<>>, to |-> 0]

\* Lines 186-192: the match of code_pattern, with re.DOTALL, that starts at
\* place p of t: the opening fence, whitespace up to a newline, as much of
\* it as leaves a match, then the shortest body that a newline and a closing
\* fence follow.  Field body is the group of the pattern, field to the place
\* after the match.
MatchCodeAt(t, p) ==
    IF ~IsAt(t, p, FenceOpen) THEN NoMatch
    ELSE LET w == p + Len(FenceOpen)
             nls == {nl \in w..(SkipSpace(t, w) - 1) :
                        t[nl] = "\n" /\ Find(t, nl + 1, FenceClose) # 0}
         IN  IF nls = {} THEN NoMatch
             ELSE LET nl == CHOOSE x \in nls : \A y \in nls : y <= x
                      c == Find(t, nl + 1, FenceClose)
                  IN  [found |-> TRUE, body |-> SubSeq(t, nl + 1, c - 1),
                       to |-> c + Len(FenceClose)]

\* The first place from p on where a match of code_pattern starts, 0 if
\* there is none.
NextCode(t, p) ==
    LET places == {q \in p..Len(t) : MatchCodeAt(t, q).found}
    IN  IF places = {} THEN 0 ELSE First(places)

\* Line 189: re.findall of code_pattern: the group of every match, the code
\* between the fences, from place p on.
RECURSIVE FindAllCode(_, _)
FindAllCode(t, p) ==
    IF NextCode(t, p) = 0 THEN <<>>
    ELSE <<MatchCodeAt(t, NextCode(t, p)).body>>
            \o FindAllCode(t, MatchCodeAt(t, NextCode(t, p)).to)

\* Line 192: re.sub of code_pattern by the placeholder: every match, fences
\* included, replaced by it, from place p on.
RECURSIVE SubCode(_, _)
SubCode(t, p) ==
    IF NextCode(t, p) = 0 THEN SubSeq(t, p, Len(t))
    ELSE SubSeq(t, p, NextCode(t, p) - 1) \o Placeholder
            \o SubCode(t, MatchCodeAt(t, NextCode(t, p)).to)

SentenceEnd == {".", "!", "?"}

\* Line 195: re.split at the runs of whitespace that follow a full stop, an
\* exclamation mark or a question mark: the pieces of t between them, from
\* place start on, where a piece begins.
RECURSIVE SplitAfterSentenceEnd(_, _)
SplitAfterSentenceEnd(t, start) ==
    LET places == {q \in Max(start, 2)..Len(t) :
                      t[q] \in Whitespace /\ t[q - 1] \in SentenceEnd}
    IN  IF places = {} THEN <<SubSeq(t, start, Len(t))>>
        ELSE <<SubSeq(t, start, First(places) - 1)>>
                \o SplitAfterSentenceEnd(t, SkipSpace(t, First(places)))

\* str.replace(pat, by), from place p on.
RECURSIVE Replace(_, _, _, _)
Replace(t, p, pat, by) ==
    IF Find(t, p, pat) = 0 THEN SubSeq(t, p, Len(t))
    ELSE SubSeq(t, p, Find(t, p, pat) - 1) \o by
            \o Replace(t, Find(t, p, pat) + Len(pat), pat, by)

\* Lines 198-203: every sentence that holds the placeholder gets the next
\* of code_blocks in its place (code_index counts from 0).
RECURSIVE RestoreCode(_, _, _)
RestoreCode(sentences, code_blocks, code_index) ==
    IF sentences = <<>> THEN <<>>
    ELSE IF Find(Head(sentences), 1, Placeholder) # 0 /\ code_index < Len(code_blocks)
    THEN <<Replace(Head(sentences), 1, Placeholder, code_blocks[code_index + 1])>>
            \o RestoreCode(Tail(sentences), code_blocks, code_index + 1)
    ELSE <<Head(sentences)>> \o RestoreCode(Tail(sentences), code_blocks, code_index)

\* Line 205: the sentences stripped, those left empty dropped.
RECURSIVE StrippedNonEmpty(_)
StrippedNonEmpty(sentences) ==
    IF sentences = <<>> THEN <<>>
    ELSE IF Strip(Head(sentences)) # <<>>
    THEN <<Strip(Head(sentences))>> \o StrippedNonEmpty(Tail(sentences))
    ELSE StrippedNonEmpty(Tail(sentences))

\* Lines 183-205: _split_into_sentences(text).
SplitIntoSentences(text) ==
    StrippedNonEmpty(
        RestoreCode(SplitAfterSentenceEnd(SubCode(text, 1), 1),
                    FindAllCode(text, 1), 0))

\* Line 163: the sentences joined by single spaces.
RECURSIVE Join(_)
Join(sentences) ==
    IF sentences = <<>> THEN <<>>
    ELSE IF Len(sentences) = 1 THEN sentences[1]
    ELSE sentences[1] \o <<" ">> \o Join(Tail(sentences))

\* Lines 162, 164: the length a unit is taken to have when chunk_overlap
\* characters are counted in units.
AverageUnitLength == 50

\* OverlapCount counting one unit for every character of chunk_overlap.
OverlapCountInCharacters(chunk_overlap) == chunk_overlap

\* Lines 162, 164: self.chunk_overlap // 50, the number of units a chunk
\* takes over from the one before it.
OverlapCount(chunk_overlap) == chunk_overlap \div AverageUnitLength

\* Lines 150-159, 170-179: a chunk dict.  The page dicts the extractors
\* build have no filename entry, so source is the empty string.
Chunk(text, page_num, start_sentence, end_sentence) ==
    [text |-> Strip(text), page |-> page_num,
     start_sentence |-> start_sentence, end_sentence |-> end_sentence,
     metadata |-> [source |-> "", page |-> page_num]]

\* Lines 146-166: the loop over the sentences of a page from sentence i on
\* (i counts from 0), st holding current_chunk, chunk_start_sentence and
\* chunks.
RECURSIVE ChunkSentences(_, _, _, _, _)
ChunkSentences(p, sentences, page_num, i, st) ==
    IF i >= Len(sentences) THEN st
    ELSE LET sentence == sentences[i + 1]
             from == Max(0, i - OverlapCount(p.chunk_overlap))
             begun ==
                 IF Len(st.current_chunk \o sentence) > p.chunk_size
                    /\ st.current_chunk # <<>>
                 THEN [current_chunk |-> Join(SubSeq(sentences, from + 1, i)),
                       chunk_start_sentence |-> from,
                       chunks |-> Append(st.chunks,
                                         Chunk(st.current_chunk, page_num,
                                               st.chunk_start_sentence, i - 1))]
                 ELSE st
         IN  ChunkSentences(p, sentences, page_num, i + 1,
                 [begun EXCEPT !.current_chunk = @ \o sentence \o <<" ">>])

\* ChunkPage without lines 168-179: what current_chunk holds after the last
\* sentence is not made a chunk.
ChunkPageWithoutLast(p, page_data, chunks) ==
    ChunkSentences(p, SplitIntoSentences(page_data.text), page_data.page, 0,
        [current_chunk |-> <<>>, chunk_start_sentence |-> 0,
         chunks |-> chunks]).chunks

\* Lines 137-179: the chunks after page_data has been chunked.
ChunkPage(p, page_data, chunks) ==
    LET sentences == SplitIntoSentences(page_data.text)
        st == ChunkSentences(p, sentences, page_data.page, 0,
                  [current_chunk |-> <<>>, chunk_start_sentence |-> 0,
                   chunks |-> chunks])
    IN  IF Strip(st.current_chunk) # <<>>
        THEN Append(st.chunks, Chunk(st.current_chunk, page_data.page,
                                     st.chunk_start_sentence, Len(sentences) - 1))
        ELSE st.chunks

\* Lines 132-181: chunk_text(text_content) of processor p, the pages from
\* the n-th on, chunks being those of the pages before.
RECURSIVE ChunkPages(_, _, _, _)
ChunkPages(p, text_content, n, chunks) ==
    IF n > Len(text_content) THEN chunks
    ELSE ChunkPages(p, text_content, n + 1, ChunkPage(p, text_content[n], chunks))

ChunkTextResult(p, text_content) == ChunkPages(p, text_content, 1, <<>>)

\* The page texts: three sentences of prose; prose around a fenced block of
\* R code; a sentence that holds two fenced blocks; four short sentences; a
\* page without text.
ScenarioText ==
    <<"V", "e", "c", "t", "o", "r", "s", " ", "s", "t", "o", "r", "e",
      " ", "v", "a", "l", "u", "e", "s", ".", " ", "U", "s", "e", " ",
      "c", "(", ")", " ", "t", "o", " ", "c", "o", "m", "b", "i", "n",
      "e", " ", "t", "h", "e", "m", ".", " ", "L", "i", "s", "t", "s",
      " ", "h", "o", "l", "d", " ", "m", "i", "x", "e", "d", " ", "t",
      "y", "p", "e", "s", ".">>

FencedText ==
    <<"T", "h", "i", "s", " ", "i", "s", " ", "a", " ", "s", "e", "n",
      "t", "e", "n", "c", "e", ".", " ", BQ, BQ, BQ, "r", "\n", "x",
      " ", "<", "-", " ", "1", "\n", BQ, BQ, BQ, " ", "T", "h", "i",
      "s", " ", "i", "s", " ", "a", "n", "o", "t", "h", "e", "r", " ",
      "s", "e", "n", "t", "e", "n", "c", "e", ".">>

ShortText ==
    <<"O", "n", "e", ".", " ", "T", "w", "o", "!", " ", "T", "h", "r",
      "e", "e", "?", " ", "F", "o", "u", "r", ".">>

TwoBlocksText ==
    <<"R", "u", "n", " ", BQ, BQ, BQ, "r", "\n", "f", "(", "x", ")",
      "\n", BQ, BQ, BQ, " ", "t", "h", "e", "n", " ", BQ, BQ, BQ, "r",
      "\n", "g", "(", "y", ")", "\n", BQ, BQ, BQ, ".", " ", "D", "o",
      "n", "e", ".">>

Texts == {ScenarioText, FencedText, TwoBlocksText, ShortText, <<>>}

\* The most pages in a text_content.
MaxPages == 1

\* text_content: pages numbered from 1, as the extractors number them.
TextContents ==
    UNION { { [n \in 1..l |-> [page |-> n, text |-> ts[n]]] : ts \in [1..l -> Texts] }
            : l \in 0..MaxPages }

ChunkSizes == {20, 50, 1000}

ChunkOverlaps == {0, 10, 50, 100, 200}

\* ------------------------------------------------------------------- state

VARIABLES
    alive,       \* a process holds a VectorStore (FALSE after an interruption)
    model_name,  \* self.model_name, which fixes self.encoder and self.dimension
    index,       \* self.index
    metadata,    \* self.metadata
    disk,        \* faiss_index.bin and metadata.pkl under index_path
    last,        \* the most recent call: its name, how it ended, whether a
                 \* persistence write failed during it
    call,        \* the arguments of the most recent call
    results,     \* what the most recent similarity_search returned
    clean,       \* the constructor did not read a pair of files that disagree
    upsets,      \* the upsets so far
    pdf,         \* the PDFProcessor: chunk_size, chunk_overlap, and its most
                 \* recent call with what it was given and what it returned
    ctx,         \* what the most recent search_with_context returned: the
                 \* context string and the references
    tasks,       \* for every thread that calls the store while another may:
                 \* the call it is in, the statement it is at, its locals
    chatbot      \* the ThinkRChatbot: conversation_history of its prompt
                 \* manager, and what its most recent chat returned

vars ==
    <<alive, model_name, index, metadata, disk, last, call, results, clean,
      upsets, pdf, ctx, tasks, chatbot>>

\* PDFProcessor(chunk_size, chunk_overlap), lines 25-27.
NewProcessor(chunk_size, chunk_overlap) ==
    [chunk_size |-> chunk_size, chunk_overlap |-> chunk_overlap,
     op |-> "init", text_content |-> <<>>, text |-> <<>>,
     sentences |-> <<>>, chunks |-> <<>>]

Ended(op, outcome, writeFailed) ==
    [op |-> op, outcome |-> outcome, writeFailed |-> writeFailed]

NoArgs == [docs |-> <<>>]

\* Line 154: the empty context string and no references.
NoContext == [context |-> <<>>, references |-> <<>>]

\* The threads that may call the store at the same time: the threads of the
\* pool that the API runs its background tasks in, and the thread of its
\* event loop.
Tasks == {"t1", "t2"}

\* A thread that is in no call of the store.
Idle == [op |-> "idle"]

\* Entry i's metadata describes vector i, and there are as many of each.
Aligned(idx, md) ==
    /\ Len(idx.vecs) = Len(md)
    /\ \A i \in 1..Len(md) : idx.vecs[i].of = md[i]

\* n more upsets are within the bound, and counted.
Upset(n) ==
    /\ upsets + n <= MaxUpsets
    /\ upsets' = upsets + n

\* The upsets a save meeting fault f makes.
Failed(f) == IF f = "none" THEN 0 ELSE 1

\* --------------------------------------------------------------- operations

\* AppendDocuments keeping the metadata of every document of the batch, the
\* ones without text included.
AppendDocumentsAllMetadata(m, idx, md, docs) ==
    [index    |-> [idx EXCEPT !.vecs = idx.vecs \o Rows(m, ValidDocs(docs))],
     metadata |-> md \o Metadatas(docs)]

\* Lines 110-116: the vectors of the texts appended to the index, the
\* metadata kept with the texts appended to the list.
Appended(m, idx, md, valid) ==
    [index    |-> [idx EXCEPT !.vecs = idx.vecs \o Rows(m, valid)],
     metadata |-> md \o Metadatas(valid)]

\* AppendDocuments without the test of line 100: every document of the
\* batch is appended, the ones without text included.
AppendDocumentsWithBlank(m, idx, md, docs) == Appended(m, idx, md, docs)

\* Lines 94-116: the store after add_documents has appended the valid
\* documents of docs.
AppendDocuments(m, idx, md, docs) == Appended(m, idx, md, ValidDocs(docs))

\* Lines 118-119: the call's result once the store new has been saved under
\* fault f.
SavedAndReturned(new, dsk, f) ==
    [index |-> new.index, metadata |-> new.metadata,
     disk |-> SaveIndex(new.index, new.metadata, dsk, f),
     outcome |-> "returned", writeFailed |-> f # "none"]

\* Line 113: index.add raises when the vectors' dimension is not the index's.
AddRaises(m, idx) == idx.d # Dimension(m)

\* Lines 88-121 with encoder.encode succeeding and the save meeting fault f:
\* the store and files after the call, and how it ended.
AddDocumentsResult(m, idx, md, dsk, docs, f) ==
    IF ValidDocs(docs) = <<>>
    THEN [index |-> idx, metadata |-> md, disk |-> dsk,
          outcome |-> "returned", writeFailed |-> FALSE]
    ELSE IF AddRaises(m, idx)
    THEN [index |-> idx, metadata |-> md, disk |-> dsk,
          outcome |-> "raised", writeFailed |-> FALSE]
    ELSE SavedAndReturned(AppendDocuments(m, idx, md, docs), dsk, f)

\* Lines 190-195 with the save meeting fault f.
ClearIndexResult(m, dsk, f) ==
    SavedAndReturned([index |-> EmptyIndex(Dimension(m)), metadata |-> <<>>], dsk, f)

\* Whether the batch fits the model's bound on the index.
Fits(idx, md, docs) ==
    LET most == IF Len(idx.vecs) >= Len(md) THEN Len(idx.vecs) ELSE Len(md)
    IN  most + Len(ValidDocs(docs)) <= MaxEntries

Init ==
    /\ alive = TRUE
    /\ model_name = DefaultModel
    /\ index = EmptyIndex(Dimension(DefaultModel))
    /\ metadata = <<>>
    /\ disk = EmptyDisk
    /\ last = Ended("construct", "returned", FALSE)
    /\ call = NoArgs
    /\ results = <<>>
    /\ clean = TRUE
    /\ upsets = 0
    /\ pdf = NewProcessor(1000, 200)
    /\ ctx = NoContext
    /\ tasks = [t \in Tasks |-> Idle]
    /\ chatbot = [conversation_history |-> <<>>, response |-> NoResponse]

\* VectorStore(model_name=m, index_path): a new store on the same path, in
\* the same process or after an interruption.  __init__ never raises on
\* what it finds there.
Construct(m) ==
    \E s \in {LoadExistingIndex(m, disk)} :
        /\ Upset(IF m = model_name THEN 0 ELSE 1)
        /\ alive' = TRUE
        /\ model_name' = m
        /\ index' = s.index
        /\ metadata' = s.metadata
        /\ last' = Ended("construct", "returned", FALSE)
        /\ call' = NoArgs
        /\ results' = <<>>
        /\ clean' = Aligned(s.index, s.metadata)
        /\ UNCHANGED <<disk, pdf, ctx, tasks, chatbot>>

\* add_documents(docs), encoder.encode returning the embeddings.
AddDocuments(docs, f) ==
    /\ alive
    /\ Upset(Failed(f))
    /\ Fits(index, metadata, docs)
    /\ \E r \in {AddDocumentsResult(model_name, index, metadata, disk, docs, f)} :
           /\ f # "none" => r.writeFailed
           /\ index' = r.index
           /\ metadata' = r.metadata
           /\ disk' = r.disk
           /\ last' = Ended("add", r.outcome, r.writeFailed)
    /\ call' = [docs |-> docs]
    /\ results' = <<>>
    /\ UNCHANGED <<alive, model_name, clean, pdf, ctx, tasks, chatbot>>

\* add_documents(docs), encoder.encode raising at line 110 because the model
\* cannot vectorize one of the texts it is given: nothing has been changed
\* yet.  A batch without a valid text returns before it encodes.
AddDocumentsEncodeFails(docs) ==
    /\ alive
    /\ Upset(1)
    /\ ValidDocs(docs) # <<>>
    /\ last' = Ended("add", "raised", FALSE)
    /\ call' = [docs |-> docs, failed |-> TRUE]
    /\ results' = <<>>
    /\ UNCHANGED <<alive, model_name, index, metadata, disk, clean, pdf, ctx,
                   tasks, chatbot>>

\* clear_index().
ClearIndex(f) ==
    /\ alive
    /\ Upset(Failed(f))
    /\ \E r \in {ClearIndexResult(model_name, disk, f)} :
           /\ index' = r.index
           /\ metadata' = r.metadata
           /\ disk' = r.disk
           /\ last' = Ended("clear", r.outcome, r.writeFailed)
    /\ call' = NoArgs
    /\ results' = <<>>
    /\ UNCHANGED <<alive, model_name, clean, pdf, ctx, tasks, chatbot>>

\* update_documents(docs): clear_index(), then add_documents(docs); the
\* save of the one meets fault fc, the save of the other fault fa.
UpdateDocuments(docs, fc, fa) ==
    /\ alive
    /\ Upset(Failed(fc) + Failed(fa))
    /\ Fits(EmptyIndex(Dimension(model_name)), <<>>, docs)
    /\ \E c \in {ClearIndexResult(model_name, disk, fc)} :
       \E r \in {AddDocumentsResult(model_name, c.index, c.metadata, c.disk, docs, fa)} :
           /\ fa # "none" => r.writeFailed
           /\ index' = r.index
           /\ metadata' = r.metadata
           /\ disk' = r.disk
           /\ last' = Ended("update", r.outcome, c.writeFailed \/ r.writeFailed)
    /\ call' = [docs |-> docs]
    /\ results' = <<>>
    /\ UNCHANGED <<alive, model_name, clean, pdf, ctx, tasks, chatbot>>

\* update_documents(docs), encoder.encode raising inside add_documents: the
\* index has been cleared and the cleared state saved.
UpdateDocumentsEncodeFails(docs, fc) ==
    /\ alive
    /\ Upset(1 + Failed(fc))
    /\ ValidDocs(docs) # <<>>
    /\ Fits(EmptyIndex(Dimension(model_name)), <<>>, docs)
    /\ \E c \in {ClearIndexResult(model_name, disk, fc)} :
           /\ index' = c.index
           /\ metadata' = c.metadata
           /\ disk' = c.disk
           /\ last' = Ended("update", "raised", c.writeFailed)
    /\ call' = [docs |-> docs]
    /\ results' = <<>>
    /\ UNCHANGED <<alive, model_name, clean, pdf, ctx, tasks, chatbot>>

\* similarity_search(query, k, threshold).
SimilaritySearch(query, k, threshold) ==
    /\ alive
    /\ \E r \in SimilaritySearchOutcomes(model_name, index, metadata, query, k, threshold) :
          /\ results' = r.results
          /\ last' = Ended("search", r.outcome, FALSE)
    /\ call' = [query |-> query, k |-> k, threshold |-> threshold]
    /\ UNCHANGED <<alive, model_name, index, metadata, disk, clean, upsets,
                   pdf, ctx, tasks, chatbot>>

\* The process is interrupted inside a call.  What it leaves on disk when
\* interrupted inside _save_index is one of the states the two writes pass
\* through: these are the states SaveIndex gives over SaveFaults (nothing
\* written yet, the first file truncated, the first written and the second
\* not yet, the second truncated, both written).  "before" keeps what a store
\* constructed on the path would have held had the call not been made.
Interrupted(op, dsk) ==
    /\ Upset(1)
    /\ alive' = FALSE
    /\ index' = EmptyIndex(Dimension(model_name))
    /\ metadata' = <<>>
    /\ disk' = dsk
    /\ last' = Ended(op, "interrupted", FALSE)
    /\ call' = [before |-> LoadExistingIndex(model_name, disk)]
    /\ results' = <<>>
    /\ UNCHANGED <<model_name, clean, pdf, ctx, tasks, chatbot>>

\* Interrupted inside add_documents(docs), at point f of its save.
AddDocumentsInterrupted(docs, f) ==
    /\ alive
    /\ Fits(index, metadata, docs)
    /\ ValidDocs(docs) # <<>>
    /\ ~AddRaises(model_name, index)
    /\ \E new \in {AppendDocuments(model_name, index, metadata, docs)} :
          Interrupted("add", SaveIndex(new.index, new.metadata, disk, f))

\* Interrupted inside clear_index(), at point f of its save.
ClearIndexInterrupted(f) ==
    /\ alive
    /\ Interrupted("clear", SaveIndex(EmptyIndex(Dimension(model_name)), <<>>, disk, f))

\* The life of the index: construction, the calls that change it, with the
\* write failures, encoder failures and interruptions they may meet.
Next ==
    \/ \E m \in Models : Construct(m)
    \/ \E docs \in Batches, f \in SaveFaults : AddDocuments(docs, f)
    \/ \E docs \in Batches : AddDocumentsEncodeFails(docs)
    \/ \E f \in SaveFaults : ClearIndex(f)
    \/ \E docs \in Batches, fc, fa \in SaveFaults : UpdateDocuments(docs, fc, fa)
    \/ \E docs \in Batches, fc \in SaveFaults : UpdateDocumentsEncodeFails(docs, fc)
    \/ \E docs \in Batches, f \in SaveFaults : AddDocumentsInterrupted(docs, f)
    \/ \E f \in SaveFaults : ClearIndexInterrupted(f)

Spec == Init /\ [][Next]_vars

\* Searches of the stores that construction, additions, clearing and
\* interruptions lead to: the stores whose vectors and metadata are in
\* lock-step, and the ones read from a pair of files that disagree (more
\* vectors than metadata after an interrupted add_documents, fewer after an
\* interrupted clear_index).
SearchNext ==
    \/ \E m \in Models : Construct(m)
    \/ \E docs \in Batches : AddDocuments(docs, "none")
    \/ ClearIndex("none")
    \/ \E docs \in Batches, f \in SaveFaults : AddDocumentsInterrupted(docs, f)
    \/ \E f \in SaveFaults : ClearIndexInterrupted(f)
    \/ \E q \in Queries, k \in Ks, t \in Thresholds : SimilaritySearch(q, k, t)

SearchSpec == Init /\ [][SearchNext]_vars

\* search_with_context(query, k, threshold): line 151 searches, and what the
\* search raises is raised.
SearchWithContext(query, k, threshold) ==
    /\ alive
    /\ \E r \in SimilaritySearchOutcomes(model_name, index, metadata, query, k, threshold) :
          /\ results' = r.results
          /\ ctx' = ContextOf(r.results)
          /\ last' = Ended("search_with_context", r.outcome, FALSE)
    /\ call' = [query |-> query, k |-> k, threshold |-> threshold]
    /\ UNCHANGED <<alive, model_name, index, metadata, disk, clean, upsets,
                   pdf, tasks, chatbot>>

\* Retrieval with context, on the stores that additions and clearing lead
\* to, for either embedding model.
ContextNext ==
    \/ \E m \in Models : Construct(m)
    \/ \E docs \in Batches : AddDocuments(docs, "none")
    \/ ClearIndex("none")
    \/ \E q \in Queries, k \in Ks, t \in Thresholds : SearchWithContext(q, k, t)

ContextSpec == Init /\ [][ContextNext]_vars

\* batch_similarity_search(queries, k).
BatchSimilaritySearch(queries, k) ==
    /\ alive
    /\ \E r \in BatchSimilaritySearchOutcomes(model_name, index, metadata, queries, k) :
          /\ results' = r.results
          /\ last' = Ended("batch_search", r.outcome, FALSE)
    /\ call' = [queries |-> queries, k |-> k]
    /\ UNCHANGED <<alive, model_name, index, metadata, disk, clean, upsets,
                   pdf, ctx, tasks, chatbot>>

\* Searches, one query at a time and in batches, of the stores in lock-step
\* and of the ones read from files that hold more vectors than metadata.
BatchNext ==
    \/ \E m \in Models : Construct(m)
    \/ \E docs \in Batches : AddDocuments(docs, "none")
    \/ \E docs \in Batches, f \in SaveFaults : AddDocumentsInterrupted(docs, f)
    \/ \E q \in Queries, k \in Ks, t \in Thresholds : SimilaritySearch(q, k, t)
    \/ \E queries \in QueryBatches, k \in Ks : BatchSimilaritySearch(queries, k)

BatchSpec == Init /\ [][BatchNext]_vars

\* ------------------------------------------------------- calls in threads

\* The store has no lock and its callers take none: the API hands every
\* /index-pdfs request's index_task to a background task (main.py, lines
\* 100-107), which the framework runs in a thread of its pool, and answers
\* /recommendations in the thread of its event loop.  A call made in a
\* thread goes statement by statement, and between two statements another
\* thread may go on.

\* The score the caller's default threshold, 0.5, amounts to among scores
\* that are whole numbers.
DefaultThreshold == 1

\* The vectors and metadata entries of the calls of add_documents that have
\* encoded their texts and not yet appended them, thread t's left out.
Pending(t) ==
    LET of(u) == IF u # t /\ tasks[u].op \in {"add", "update"}
                 THEN Len(ValidDocs(tasks[u].docs)) ELSE 0
    IN  of("t1") + of("t2")

\* Whether thread t may begin a call that appends the valid documents of
\* docs, within the model's bound on the index.
TaskFits(t, docs) ==
    Max(Len(index.vecs), Len(metadata)) + Pending(t) + Len(ValidDocs(docs))
        <= MaxEntries

\* Thread t's call has returned.
Returns(t) == tasks' = [tasks EXCEPT ![t] = Idle]

\* Thread t goes on to statement pc of its call.
GoesTo(t, pc) == tasks' = [tasks EXCEPT ![t].pc = pc]

\* Lines 88-110: thread t calls add_documents(docs), as index_task does
\* through ThinkRChatbot.index_pdfs (chatbot.py, line 59).  It returns at
\* once when there is no valid text; else it has the texts encoded and is
\* before line 113.
BeginAddDocuments(t, docs) ==
    /\ alive
    /\ tasks[t] = Idle
    /\ TaskFits(t, docs)
    /\ IF ValidDocs(docs) = <<>>
       THEN Returns(t)
       ELSE tasks' = [tasks EXCEPT ![t] = [op |-> "add", pc |-> "index_add", docs |-> docs]]
    /\ UNCHANGED <<alive, model_name, index, metadata, disk, last, call,
                   results, clean, upsets, pdf, ctx, chatbot>>

\* Line 113: self.index.add(embeddings).
AddToIndex(t) ==
    /\ tasks[t].op \in {"add", "update"}
    /\ tasks[t].pc = "index_add"
    /\ index' = [index EXCEPT !.vecs = @ \o Rows(model_name, ValidDocs(tasks[t].docs))]
    /\ GoesTo(t, "extend")
    /\ UNCHANGED <<alive, model_name, metadata, disk, last, call, results,
                   clean, upsets, pdf, ctx, chatbot>>

\* Line 116: self.metadata.extend(new_metadata).
ExtendMetadata(t) ==
    /\ tasks[t].op \in {"add", "update"}
    /\ tasks[t].pc = "extend"
    /\ metadata' = metadata \o Metadatas(ValidDocs(tasks[t].docs))
    /\ GoesTo(t, "save")
    /\ UNCHANGED <<alive, model_name, index, disk, last, call, results,
                   clean, upsets, pdf, ctx, chatbot>>

\* Lines 119-121: self._save_index() writes both files, and add_documents
\* returns.
SaveAdded(t) ==
    /\ tasks[t].op \in {"add", "update"}
    /\ tasks[t].pc = "save"
    /\ disk' = SaveIndex(index, metadata, disk, "none")
    /\ Returns(t)
    /\ UNCHANGED <<alive, model_name, index, metadata, last, call, results,
                   clean, upsets, pdf, ctx, chatbot>>

\* Thread t calls clear_index(), and is before line 192.
BeginClearIndex(t) ==
    /\ alive
    /\ tasks[t] = Idle
    /\ tasks' = [tasks EXCEPT ![t] = [op |-> "clear", pc |-> "reset_index"]]
    /\ UNCHANGED <<alive, model_name, index, metadata, disk, last, call,
                   results, clean, upsets, pdf, ctx, chatbot>>

\* Lines 206-209: thread t calls update_documents(docs), and is before line
\* 192 of the clear_index it calls.
BeginUpdateDocuments(t, docs) ==
    /\ alive
    /\ tasks[t] = Idle
    /\ TaskFits(t, docs)
    /\ tasks' = [tasks EXCEPT ![t] = [op |-> "update", pc |-> "reset_index", docs |-> docs]]
    /\ UNCHANGED <<alive, model_name, index, metadata, disk, last, call,
                   results, clean, upsets, pdf, ctx, chatbot>>

\* Line 192: self.index = faiss.IndexFlatIP(self.dimension).
ResetIndex(t) ==
    /\ tasks[t].op \in {"clear", "update"}
    /\ tasks[t].pc = "reset_index"
    /\ index' = EmptyIndex(Dimension(model_name))
    /\ GoesTo(t, "reset_metadata")
    /\ UNCHANGED <<alive, model_name, metadata, disk, last, call, results,
                   clean, upsets, pdf, ctx, chatbot>>

\* Line 193: self.metadata = [].
ResetMetadata(t) ==
    /\ tasks[t].op \in {"clear", "update"}
    /\ tasks[t].pc = "reset_metadata"
    /\ metadata' = <<>>
    /\ GoesTo(t, "save_cleared")
    /\ UNCHANGED <<alive, model_name, index, disk, last, call, results,
                   clean, upsets, pdf, ctx, chatbot>>

\* Lines 194-195: self._save_index(), and clear_index returns: to its
\* caller, or to update_documents, which calls add_documents (line 210).
SaveCleared(t) ==
    /\ tasks[t].op \in {"clear", "update"}
    /\ tasks[t].pc = "save_cleared"
    /\ disk' = SaveIndex(index, metadata, disk, "none")
    /\ IF tasks[t].op = "clear"
       THEN Returns(t)
       ELSE IF ValidDocs(tasks[t].docs) = <<>>
       THEN Returns(t)
       ELSE GoesTo(t, "index_add")
    /\ UNCHANGED <<alive, model_name, index, metadata, last, call, results,
                   clean, upsets, pdf, ctx, chatbot>>

\* Lines 123-129: thread t calls similarity_search(query, k) with the
\* default threshold.  It returns at once for a query without text; else it
\* has the query encoded and is before line 132.
BeginSimilaritySearch(t, query, k) ==
    /\ alive
    /\ tasks[t] = Idle
    /\ LET args == [query |-> query, k |-> k, threshold |-> DefaultThreshold]
       IN  IF Strip(query) = <<>>
           THEN /\ Returns(t)
                /\ results' = <<>>
           ELSE /\ tasks' = [tasks EXCEPT ![t] =
                                [op |-> "search", pc |-> "index_search", args |-> args]]
                /\ UNCHANGED results
    /\ UNCHANGED <<alive, model_name, index, metadata, disk, last, call,
                   clean, upsets, pdf, ctx, chatbot>>

\* A hit as the index reports it, with the metadata of the document its
\* vector was computed from: what the index held at its position, which
\* the program does not know.
HitOf(idx, hit) ==
    [score |-> hit.score, idx |-> hit.idx,
     of |-> IF hit.idx >= 0 THEN idx.vecs[hit.idx + 1].of ELSE [padding |-> TRUE]]

\* Line 132: scores, indices = self.index.search(query_embedding, k).
SearchIndex(t) ==
    /\ tasks[t].op = "search"
    /\ tasks[t].pc = "index_search"
    /\ \E raw \in FaissSearch(index, Encode(model_name, tasks[t].args.query),
                               tasks[t].args.k) :
          tasks' = [tasks EXCEPT ![t] =
                      [op |-> "search", pc |-> "collect", args |-> tasks[t].args,
                       raw |-> [i \in 1..Len(raw) |-> HitOf(index, raw[i])]]]
    /\ UNCHANGED <<alive, model_name, index, metadata, disk, last, call,
                   results, clean, upsets, pdf, ctx, chatbot>>

\* Lines 134-147: the loop over the hits, which reads self.metadata, the
\* sort, and the return.
CollectResults(t) ==
    /\ tasks[t].op = "search"
    /\ tasks[t].pc = "collect"
    /\ ~CollectRaises(tasks[t].raw, metadata, tasks[t].args.threshold)
    /\ results' = SortByScore(Collect(tasks[t].raw, metadata, tasks[t].args.threshold))
    /\ Returns(t)
    /\ UNCHANGED <<alive, model_name, index, metadata, disk, last, call,
                   clean, upsets, pdf, ctx, chatbot>>

\* POST /index-pdfs (main.py, lines 93-116): the request's index_task runs
\* in thread t of the pool and calls index_pdfs of the one chatbot, which
\* returns a warning when it has no chunks (chatbot.py, lines 55-56) and
\* else hands them to add_documents.
IndexPdfs(t, chunks) ==
    /\ chunks # <<>>
    /\ BeginAddDocuments(t, chunks)

\* Threads that add documents, as the background tasks of /index-pdfs do.
ConcurrentAddNext ==
    \/ \E t \in Tasks, chunks \in Batches : IndexPdfs(t, chunks)
    \/ \E t \in Tasks : AddToIndex(t)
    \/ \E t \in Tasks : ExtendMetadata(t)
    \/ \E t \in Tasks : SaveAdded(t)

ConcurrentAddSpec == Init /\ [][ConcurrentAddNext]_vars

\* A thread that searches, as the event loop does for /recommendations,
\* while another adds, clears and updates, as a thread of the pool does.
Reader == "t1"

Writer == "t2"

ConcurrentSearchNext ==
    \/ \E docs \in Batches : BeginAddDocuments(Writer, docs)
    \/ AddToIndex(Writer)
    \/ ExtendMetadata(Writer)
    \/ SaveAdded(Writer)
    \/ BeginClearIndex(Writer)
    \/ \E docs \in Batches : BeginUpdateDocuments(Writer, docs)
    \/ ResetIndex(Writer)
    \/ ResetMetadata(Writer)
    \/ SaveCleared(Writer)
    \/ \E q \in Queries, k \in 1..MaxK : BeginSimilaritySearch(Reader, q, k)
    \/ SearchIndex(Reader)
    \/ CollectResults(Reader)

ConcurrentSearchSpec == Init /\ [][ConcurrentSearchNext]_vars

\* chat(message, use_context): the search of line 78 with its outcome, the
\* call of the language model with its own, the history and the response.
\* chat returns whatever was raised inside it.
Chat(message, use_context) ==
    /\ alive
    /\ Len(chatbot.conversation_history) + 2 <= MaxHistory
    /\ \E retrieval \in
           (IF use_context
            THEN SimilaritySearchOutcomes(model_name, index, metadata, message,
                                          ChatK, DefaultThreshold)
            ELSE {SearchReturned(<<>>)}),
          llm \in LLMOutcomes :
          /\ chatbot' = ChatResult(chatbot.conversation_history, message, retrieval, llm)
          /\ IF use_context /\ retrieval.outcome = "returned"
             THEN results' = retrieval.results /\ ctx' = ContextOf(retrieval.results)
             ELSE UNCHANGED <<results, ctx>>
          /\ call' = [message |-> message, use_context |-> use_context,
                      retrieval |-> retrieval.outcome,
                      llm |-> IF retrieval.outcome = "raised"
                              THEN "not called" ELSE llm.outcome]
    /\ last' = Ended("chat", "returned", FALSE)
    /\ UNCHANGED <<alive, model_name, index, metadata, disk, clean, upsets,
                   pdf, tasks>>

\* clear_conversation_history() (chatbot.py, lines 143-146).
ClearConversationHistory ==
    /\ alive
    /\ chatbot' = [chatbot EXCEPT !.conversation_history = <<>>]
    /\ last' = Ended("clear_history", "returned", FALSE)
    /\ call' = NoArgs
    /\ UNCHANGED <<alive, model_name, index, metadata, disk, results, clean,
                   upsets, pdf, ctx, tasks>>

\* Conversations with the chatbot, over the stores that additions lead to
\* and the ones constructed on the files of another embedding model.
ChatNext ==
    \/ \E m \in Models : Construct(m)
    \/ \E docs \in Batches : AddDocuments(docs, "none")
    \/ \E message \in Queries, use_context \in BOOLEAN : Chat(message, use_context)
    \/ ClearConversationHistory

ChatSpec == Init /\ [][ChatNext]_vars

\* PDFProcessor(chunk_size=..., chunk_overlap=...).
NewPDFProcessor(chunk_size, chunk_overlap) ==
    /\ pdf' = NewProcessor(chunk_size, chunk_overlap)
    /\ UNCHANGED <<alive, model_name, index, metadata, disk, last, call,
                   results, clean, upsets, ctx, tasks, chatbot>>

\* _split_into_sentences(text).
SplitIntoSentencesCall(text) ==
    /\ pdf' = [NewProcessor(pdf.chunk_size, pdf.chunk_overlap) EXCEPT
                  !.op = "split_into_sentences",
                  !.text = text,
                  !.sentences = SplitIntoSentences(text)]
    /\ UNCHANGED <<alive, model_name, index, metadata, disk, last, call,
                   results, clean, upsets, ctx, tasks, chatbot>>

\* chunk_text(text_content).
ChunkText(text_content) ==
    /\ pdf' = [NewProcessor(pdf.chunk_size, pdf.chunk_overlap) EXCEPT
                  !.op = "chunk_text",
                  !.text_content = text_content,
                  !.chunks = ChunkTextResult(pdf, text_content)]
    /\ UNCHANGED <<alive, model_name, index, metadata, disk, last, call,
                   results, clean, upsets, ctx, tasks, chatbot>>

\* The chunker at work: processors of every configuration, and their calls.
ChunkNext ==
    \/ \E size \in ChunkSizes, overlap \in ChunkOverlaps : NewPDFProcessor(size, overlap)
    \/ \E text \in Texts : SplitIntoSentencesCall(text)
    \/ \E text_content \in TextContents : ChunkText(text_content)

ChunkSpec == Init /\ [][ChunkNext]_vars

\* ------------------------------------------------------------------ claims

\* What a store constructed now on the same path, for the same model, holds.
Reloaded == LoadExistingIndex(model_name, disk)

Stats == GetIndexStats(model_name, index, metadata)

ReloadedStats == GetIndexStats(model_name, Reloaded.index, Reloaded.metadata)

\* C1: a similarity_search that returns gives at most k results (none for
\* a k below 1), each of
\* score >= threshold, in non-increasing order of score.
C1_SearchBounded ==
    (last.op = "search" /\ last.outcome = "returned") =>
        /\ Len(results) <= Max(call.k, 0)
        /\ \A i \in 1..Len(results) : results[i].score >= call.threshold
        /\ \A i, j \in 1..Len(results) : i < j => results[i].score >= results[j].score

\* A search with k = 2 over two stored vectors of different score returned
\* both, the better one first.
C1_Witness ==
    /\ last.op = "search" /\ last.outcome = "returned"
    /\ call.k = 2 /\ Len(index.vecs) = 2
    /\ Len(results) = 2 /\ results[1].score > results[2].score

\* C2: on a store whose constructor did not read a pair of files that
\* disagree, after every add_documents, clear_index and update_documents
\* call, those in which encode raises or a write fails included,
\* get_index_stats reports total_documents = index_size and the metadata at
\* every position is that of the document whose vector is at the position.
C2_LockStep ==
    (alive /\ clean) =>
        /\ Stats.total_documents = Stats.index_size
        /\ Aligned(index, metadata)

\* After an upset (an encode that raised, a write that failed), a call has
\* returned and the store holds two different documents.
C2_Witness ==
    /\ alive /\ clean /\ upsets > 0
    /\ last.op \in {"add", "update"} /\ last.outcome = "returned"
    /\ Len(metadata) = 2 /\ metadata[1] # metadata[2]

\* C3: after add_documents returns, a store constructed on the same path
\* reports the same get_index_stats and answers every search alike.
C3_RoundTrip ==
    (last.op = "add" /\ last.outcome = "returned") =>
        /\ ReloadedStats = Stats
        /\ \A q \in Queries, k \in Ks, t \in Thresholds :
             SimilaritySearchOutcomes(model_name, Reloaded.index, Reloaded.metadata, q, k, t)
               = SimilaritySearchOutcomes(model_name, index, metadata, q, k, t)

\* C4: an add_documents or clear_index call during which a persistence
\* write failed does not return normally.
C4_WriteFailurePropagates ==
    (last.op \in {"add", "clear"} /\ last.writeFailed) => last.outcome = "raised"

\* Store s holds every entry of store b, at its position.
Contains(s, b) ==
    /\ Len(b.metadata) <= Len(s.metadata)
    /\ Len(b.index.vecs) <= Len(s.index.vecs)
    /\ \A i \in 1..Len(b.metadata) : s.metadata[i] = b.metadata[i]
    /\ \A i \in 1..Len(b.index.vecs) : s.index.vecs[i] = b.index.vecs[i]

\* C5: after an interruption inside add_documents, a store constructed on
\* the path holds every document a store constructed there before the call
\* would have held.
C5_InterruptedAddKeepsCommitted ==
    (last.op = "add" /\ last.outcome = "interrupted") => Contains(Reloaded, call.before)

\* The vectors and metadata a store holds, in memory (idx, md) and as a
\* store constructed on the files dsk would read them.
Content(idx, md, dsk) ==
    LET s == LoadExistingIndex(model_name, dsk)
    IN  [vecs |-> idx.vecs, metadata |-> md,
         saved_vecs |-> s.index.vecs, saved_metadata |-> s.metadata]

\* The content of a store that holds exactly the entries of docs.
ContentOf(docs) ==
    LET rows == Rows(model_name, ValidDocs(docs))
        mds == Metadatas(ValidDocs(docs))
    IN  [vecs |-> rows, metadata |-> mds, saved_vecs |-> rows, saved_metadata |-> mds]

\* C6: when update_documents(docs) finishes, by returning or by an exception
\* raised while embedding, the store and the files hold exactly the entries
\* of docs or exactly what they held before the call.  Stated for the calls
\* during which no write failed.
C6_UpdateAllOrNothing ==
    [][(last'.op = "update" /\ ~last'.writeFailed) =>
          \/ Content(index', metadata', disk') = ContentOf(call'.docs)
          \/ Content(index', metadata', disk') = Content(index, metadata, disk)]_vars

\* One of the two files is there and readable, the other is not there.
HalfPair(dsk) ==
    \/ dsk.index.st = "intact" /\ dsk.meta.st = "absent"
    \/ dsk.index.st = "absent" /\ dsk.meta.st = "intact"

\* C7: constructing a store on a path that holds one of the two files
\* without the other fails with an error.
C7_HalfPairFailsToLoad ==
    (last.op = "construct" /\ HalfPair(disk)) => last.outcome = "raised"

\* Both files can be read and do not hold the same number of entries.
CountsDisagree(dsk) ==
    /\ dsk.index.st = "intact" /\ dsk.meta.st = "intact"
    /\ Len(dsk.index.data.vecs) # Len(dsk.meta.data)

\* C8: constructing a store on files whose numbers of vectors and of
\* metadata entries differ fails with a load error.
C8_CountMismatchFailsToLoad ==
    (last.op = "construct" /\ CountsDisagree(disk)) => last.outcome = "raised"

\* C9: the index in use has the dimension of the store's embedding model.
C9_DimensionFixed ==
    alive => index.d = Dimension(model_name)

\* C10: after clear_index returns the store is empty, and so is a store
\* constructed afterwards on the same path.
C10_ClearPersisted ==
    (last.op = "clear" /\ last.outcome = "returned") =>
        /\ Stats.total_documents = 0 /\ Stats.index_size = 0
        /\ ReloadedStats.total_documents = 0

\* ------------------------------------------- claims about ranking and batches

\* The query of the most recent search, encoded.
QueryVec == Encode(model_name, call.query)

\* The inner product the index computes for the vector at position p.
ScoreAt(p) == Dot(QueryVec, index.vecs[p + 1].vec)

\* A search of a store in lock-step, of the model's dimension, has returned.
SearchedInStep ==
    /\ last.op = "search" /\ last.outcome = "returned"
    /\ Strip(call.query) # <<>>
    /\ index.d = Dimension(model_name)
    /\ Aligned(index, metadata)

\* cos(q, u) > cos(q, v) for vectors none of which is zero: q.u / |u| is
\* compared with q.v / |v| by sign and by square.
CosineGreater(q, u, v) ==
    LET a == Dot(q, u)
        b == Dot(q, v)
    IN  IF a >= 0 /\ b >= 0 THEN a * a * Dot(v, v) > b * b * Dot(u, u)
        ELSE IF a >= 0 THEN TRUE
        ELSE IF b >= 0 THEN FALSE
        ELSE a * a * Dot(v, v) < b * b * Dot(u, u)

\* C11: when a search leaves out no stored vector for its score, no stored
\* vector has a greater cosine similarity to the query than the vector of
\* the result ranked first.
C11_TopIsCosineNearest ==
    (/\ SearchedInStep
     /\ results # <<>>
     /\ \A p \in 0..(Len(index.vecs) - 1) : ScoreAt(p) >= call.threshold) =>
        \A p \in 1..Len(index.vecs) :
            ~CosineGreater(QueryVec, index.vecs[p].vec,
                           index.vecs[results[1].index + 1].vec)

\* C12: results of equal score are in the order of their positions, and a
\* stored vector that scores as a result does and was inserted before it is
\* a result too.
C12_TiesByInsertionOrder ==
    SearchedInStep =>
        /\ \A i, j \in 1..Len(results) :
             (i < j /\ results[i].score = results[j].score)
                => results[i].index < results[j].index
        /\ \A i \in 1..Len(results), p \in 0..(Len(index.vecs) - 1) :
             (p < results[i].index /\ ScoreAt(p) = results[i].score)
                => \E j \in 1..Len(results) : results[j].index = p

\* C13: a similarity_search whose query is empty or only whitespace returns
\* the empty list, whatever k is and whatever index the store holds (the
\* index would raise for a k below 0, or for a vector of another dimension
\* than its own), and leaves the index, the metadata and the files as they
\* were.
C13_BlankQueryTouchesNothing ==
    [][(last'.op = "search" /\ Strip(call'.query) = <<>>) =>
          /\ last'.outcome = "returned"
          /\ results' = <<>>
          /\ index' = index /\ metadata' = metadata /\ disk' = disk]_vars

\* A query of whitespace, with a k the index would reject, has been answered
\* on a store that holds vectors and has them saved.
C13_Witness ==
    /\ last.op = "search" /\ last.outcome = "returned"
    /\ Strip(call.query) = <<>> /\ call.query # <<>>
    /\ call.k < 0
    /\ Len(index.vecs) > 0 /\ disk.index.st = "intact"
    /\ results = <<>>

\* C14: a similarity_search with k <= 0, on a store whose index has the
\* model's dimension, returns the empty list.
C14_NonPositiveKReturnsEmpty ==
    (last.op = "search" /\ call.k <= 0 /\ index.d = Dimension(model_name)) =>
        last.outcome = "returned" /\ results = <<>>

\* The positions of docs whose text is not empty or only whitespace.
KeptPositions(docs) == {i \in 1..Len(docs) : Strip(docs[i].text) # <<>>}

\* The j-th of them.
NthKept(docs, j) ==
    CHOOSE p \in KeptPositions(docs) :
        Cardinality({q \in KeptPositions(docs) : q <= p}) = j

\* C15: an add_documents that returns has appended, after what the store
\* held, one vector and one metadata entry for every document of the batch
\* whose text is not empty or only whitespace, in the order of the batch,
\* and none for the others.
C15_BlankDocumentsDropped ==
    [][(last'.op = "add" /\ last'.outcome = "returned") =>
          LET docs == call'.docs
              n == Cardinality(KeptPositions(docs))
          IN  /\ Len(metadata') = Len(metadata) + n
              /\ Len(index'.vecs) = Len(index.vecs) + n
              /\ \A i \in 1..Len(metadata) : metadata'[i] = metadata[i]
              /\ \A i \in 1..Len(index.vecs) : index'.vecs[i] = index.vecs[i]
              /\ \A j \in 1..n :
                   /\ metadata'[Len(metadata) + j] = docs[NthKept(docs, j)].metadata
                   /\ index'.vecs[Len(index.vecs) + j].vec
                        = Encode(model_name, docs[NthKept(docs, j)].text)]_vars

\* A batch of a document without text followed by one with text has been
\* added to a store that held a document.
C15_Witness ==
    /\ last.op = "add" /\ last.outcome = "returned"
    /\ Len(call.docs) = 2
    /\ KeptPositions(call.docs) = {2}
    /\ Len(metadata) = 2 /\ Len(index.vecs) = 2
    /\ metadata[2] = call.docs[2].metadata

\* Sequence s without its p-th element.
Without(s, p) == [i \in 1..(Len(s) - 1) |-> IF i < p THEN s[i] ELSE s[i + 1]]

\* C16: after an add_documents in which the model failed to vectorize one
\* text, the store ends with the entries of the other documents of the
\* batch, whichever of the texts it was, and so does a store constructed on
\* the same path.
C16_EncodeFailureSkipsItem ==
    (last.op = "add" /\ last.outcome = "raised" /\ "failed" \in DOMAIN call) =>
        \E p \in 1..Len(ValidDocs(call.docs)) :
            LET others == Without(ValidDocs(call.docs), p)
                n == Len(others)
                EndsWith(md) ==
                    /\ Len(md) >= n
                    /\ \A j \in 1..n : md[Len(md) - n + j] = others[j].metadata
            IN  EndsWith(metadata) /\ EndsWith(Reloaded.metadata)

\* ------------------------------------------------- claims about the chunker

\* The units of page n of the text_content most recently chunked.
UnitsOfPage(n) == SplitIntoSentences(pdf.text_content[n].text)

\* The fenced code blocks of text t from place p on, fences included, as
\* they stand in t.
RECURSIVE FencedBlocks(_, _)
FencedBlocks(t, p) ==
    IF NextCode(t, p) = 0 THEN <<>>
    ELSE <<SubSeq(t, NextCode(t, p), MatchCodeAt(t, NextCode(t, p)).to - 1)>>
            \o FencedBlocks(t, MatchCodeAt(t, NextCode(t, p)).to)

\* Text w stands somewhere in text t.
Within(w, t) == Find(t, 1, w) # 0

\* Chunk c is made of one unit, and the unit holds the code of a fenced
\* block of its page.
IsOneCodeUnit(c) ==
    /\ c.start_sentence = c.end_sentence
    /\ \E i \in 1..Len(FindAllCode(pdf.text_content[c.page].text, 1)) :
          Within(FindAllCode(pdf.text_content[c.page].text, 1)[i], c.text)

\* C17: every chunk chunk_text returns has a text of at most chunk_size
\* characters, or is made of exactly one code-block unit.
C17_ChunkWithinSize ==
    pdf.op = "chunk_text" =>
        \A i \in 1..Len(pdf.chunks) :
            \/ Len(pdf.chunks[i].text) <= pdf.chunk_size
            \/ IsOneCodeUnit(pdf.chunks[i])

\* C18: of two chunks of a page that follow one another, the second goes on
\* to a unit the first does not have, and the units it has before that one
\* are the last units of the first, at most chunk_overlap // 50 of them, and
\* are what its text begins with.
C18_OverlapIsSuffix ==
    pdf.op = "chunk_text" =>
        \A i \in 1..(Len(pdf.chunks) - 1) :
            LET c1 == pdf.chunks[i]
                c2 == pdf.chunks[i + 1]
                window == SubSeq(UnitsOfPage(c2.page),
                                 c2.start_sentence + 1, c1.end_sentence + 1)
            IN  c1.page = c2.page =>
                  /\ c2.end_sentence > c1.end_sentence
                  /\ c1.start_sentence <= c2.start_sentence
                  /\ c2.start_sentence <= c1.end_sentence + 1
                  /\ Len(window) <= pdf.chunk_overlap \div 50
                  /\ IsAt(c2.text, 1, Join(window))

\* A chunk begins with the last two units of the chunk before it, which
\* has more units than these.
C18_Witness ==
    /\ pdf.op = "chunk_text"
    /\ \E i \in 1..(Len(pdf.chunks) - 1) :
          /\ pdf.chunks[i].page = pdf.chunks[i + 1].page
          /\ pdf.chunks[i + 1].start_sentence + 1 = pdf.chunks[i].end_sentence
          /\ pdf.chunks[i].start_sentence < pdf.chunks[i + 1].start_sentence

\* C19: every fenced code block of a text stands, fences included, in a unit
\* _split_into_sentences returns for the text, and in exactly one of the
\* chunks chunk_text returns for a page of that text.
C19_FenceRoundTrip ==
    /\ pdf.op = "split_into_sentences" =>
          \A b \in 1..Len(FencedBlocks(pdf.text, 1)) :
              \E u \in 1..Len(pdf.sentences) :
                  Within(FencedBlocks(pdf.text, 1)[b], pdf.sentences[u])
    /\ pdf.op = "chunk_text" =>
          \A n \in 1..Len(pdf.text_content) :
              \A b \in 1..Len(FencedBlocks(pdf.text_content[n].text, 1)) :
                  Cardinality({i \in 1..Len(pdf.chunks) :
                      /\ pdf.chunks[i].page = n
                      /\ Within(FencedBlocks(pdf.text_content[n].text, 1)[b],
                                pdf.chunks[i].text)}) = 1

\* The second sentence of ScenarioText: Use c() to combine them.
SecondSentence == SubSeq(ScenarioText, 23, 46)

\* C20: with chunk_size 50 and chunk_overlap 10, chunk_text of the one page
\* ScenarioText returns two chunks, the first ending with the second
\* sentence of the page and the second beginning with it.
C20_ScenarioOverlap ==
    (/\ pdf.op = "chunk_text"
     /\ pdf.chunk_size = 50 /\ pdf.chunk_overlap = 10
     /\ pdf.text_content = <<[page |-> 1, text |-> ScenarioText]>>) =>
        /\ Len(pdf.chunks) = 2
        /\ UnitsOfPage(1)[pdf.chunks[1].end_sentence + 1] = SecondSentence
        /\ IsAt(pdf.chunks[2].text, 1, SecondSentence)

\* The number of places of text t where text w stands.
Occurrences(w, t) == Cardinality({q \in 1..Len(t) : IsAt(t, q, w)})

\* C21: the code of every fenced block of a text stands in the units
\* _split_into_sentences returns, and in the chunks chunk_text returns for a
\* page of the text without overlap, as often as in the text: no block is
\* left out and none stands there twice.
C21_EveryBlockRestoredOnce ==
    /\ pdf.op = "split_into_sentences" =>
          \A b \in 1..Len(FindAllCode(pdf.text, 1)) :
              LET code == FindAllCode(pdf.text, 1)[b]
              IN  Occurrences(code, Join(pdf.sentences)) = Occurrences(code, pdf.text)
    /\ (pdf.op = "chunk_text" /\ pdf.chunk_overlap < 50) =>
          \A n \in 1..Len(pdf.text_content) :
              \A b \in 1..Len(FindAllCode(pdf.text_content[n].text, 1)) :
                  LET code == FindAllCode(pdf.text_content[n].text, 1)[b]
                      texts == [i \in 1..Len(pdf.chunks) |->
                                   IF pdf.chunks[i].page = n
                                   THEN pdf.chunks[i].text ELSE <<>>]
                  IN  Occurrences(code, Join(texts))
                        = Occurrences(code, pdf.text_content[n].text)

\* ------------------------------------------------ claims about the context

\* The name the entry of metadata md goes by: its title if it has one, its
\* source otherwise.
NameOf(md) ==
    IF "title" \in DOMAIN md /\ md.title # <<>> THEN md.title ELSE md.source

\* A search_with_context has returned.
ContextReturned == last.op = "search_with_context" /\ last.outcome = "returned"

\* C22: the context search_with_context returns is made of one line for
\* every result, in ranked order, line i (from 1) reading
\* [Reference i] name - Page page (Relevance: score), the name being the
\* entry's title if it has one and its source otherwise.
C22_ContextLineNamesEntry ==
    ContextReturned =>
        ctx.context =
            JoinLines([i \in 1..Len(results) |->
                <<"[", "R", "e", "f", "e", "r", "e", "n", "c", "e", " ">>
                    \o Str(i) \o <<"]", " ">>
                    \o NameOf(results[i].metadata)
                    \o <<" ", "-", " ", "P", "a", "g", "e", " ">>
                    \o PageFormatted(results[i].metadata)
                    \o <<" ", "(", "R", "e", "l", "e", "v", "a", "n", "c", "e", ":", " ">>
                    \o Fixed3(results[i].score) \o <<")">>])

\* C23: search_with_context returns one reference for every result of the
\* similarity_search of its arguments, in ranked order: module is the title
\* if there is one and the source otherwise, page is the page as a string
\* or empty, score is the result's score.  When the search finds nothing it
\* returns the empty string and no reference.
C23_OneReferencePerResult ==
    ContextReturned =>
        /\ SearchReturned(results) \in
               SimilaritySearchOutcomes(model_name, index, metadata,
                                        call.query, call.k, call.threshold)
        /\ Len(ctx.references) = Len(results)
        /\ \A i \in 1..Len(results) :
              LET md == results[i].metadata
              IN  /\ ctx.references[i].module = NameOf(md)
                  /\ ctx.references[i].page
                        = (IF "page" \in DOMAIN md THEN Str(md.page) ELSE <<>>)
                  /\ ctx.references[i].score = results[i].score
        /\ results = <<>> => ctx = [context |-> <<>>, references |-> <<>>]

\* Two references have been returned, the better one for an entry without
\* title and page, the other for an entry that has both.
C23_Witness ==
    /\ ContextReturned
    /\ Len(ctx.references) = 2
    /\ "title" \notin DOMAIN results[1].metadata
    /\ ctx.references[1].module = results[1].metadata.source
    /\ ctx.references[1].page = <<>>
    /\ "title" \in DOMAIN results[2].metadata
    /\ ctx.references[2].module = results[2].metadata.title
    /\ ctx.references[2].page = <<"3">>
    /\ ctx.references[1].score > ctx.references[2].score

\* ------------------------------------------- claims about calls in threads

\* The threads that are inside a call that changes the index.
Mutating == {t \in Tasks : tasks[t].op \in {"add", "clear", "update"}}

\* C24: at no time is more than one thread inside a call that changes the
\* index: the index_task of one /index-pdfs request does not begin its
\* add_documents while that of another is inside its own.
C24_OneMutationInFlight == Cardinality(Mutating) <= 1

\* C26: when the add_documents calls of two threads have gone on statement
\* by statement in any order and both have returned, the metadata at every
\* position is that of the document whose vector is at the position, in
\* memory and in the pair of files.
C26_InterleavedAddsStayAligned ==
    (\A t \in Tasks : tasks[t] = Idle) =>
        /\ Aligned(index, metadata)
        /\ disk.index.st = "intact" =>
              /\ disk.meta.st = "intact"
              /\ Aligned(disk.index.data, disk.meta.data)

\* C27: every result a similarity_search returns, whatever another thread
\* has done to the store between its statements, has the score and the
\* position of a hit the index reported to it and the metadata of the
\* document that hit's vector was computed from.
C27_SearchPairsScoreWithItsDocument ==
    [][\A t \in Tasks :
          (tasks[t].op = "search" /\ tasks[t].pc = "collect" /\ tasks'[t] = Idle) =>
              \A i \in 1..Len(results') :
                  \E j \in 1..Len(tasks[t].raw) :
                      /\ tasks[t].raw[j].idx = results'[i].index
                      /\ tasks[t].raw[j].score = results'[i].score
                      /\ tasks[t].raw[j].of = results'[i].metadata]_vars

\* ----------------------------------------- claims about positions reported

\* Result r has a position of the metadata list and the metadata there.
AtItsPosition(r) ==
    /\ 0 <= r.index /\ r.index < Len(metadata)
    /\ r.metadata = metadata[r.index + 1]

\* C25: a similarity_search or batch_similarity_search with k >= 1, on a
\* store whose index has the model's dimension, does not raise, whether or
\* not the index holds k vectors and whether or not it holds more vectors
\* than there are metadata entries, and every result it returns has a
\* position p with 0 <= p < the number of metadata entries and the
\* metadata stored at p.
C25_LenientSkip ==
    (/\ last.op \in {"search", "batch_search"}
     /\ call.k >= 1
     /\ index.d = Dimension(model_name)) =>
        /\ last.outcome = "returned"
        /\ last.op = "search" =>
              \A i \in 1..Len(results) : AtItsPosition(results[i])
        /\ last.op = "batch_search" =>
              \A n \in 1..Len(results) :
                  \A i \in 1..Len(results[n]) : AtItsPosition(results[n][i])

\* ------------------------------------------- claims about what chunks hold

\* The chunks of page n, in the order chunk_text returned them.
ChunksOfPage(n) == SelectSeq(pdf.chunks, LAMBDA c : c.page = n)

\* C28: the chunks chunk_text returns for a page of n >= 1 units have
\* start_sentence <= end_sentence; the first starts at unit 0 and the last
\* ends at unit n - 1; end_sentence goes up from each to the next, which
\* starts no later than the unit after the one the chunk before it ends
\* with.  A page without units has no chunk.
C28_ChunksCoverPage ==
    pdf.op = "chunk_text" =>
        \A n \in 1..Len(pdf.text_content) :
            LET cs == ChunksOfPage(n)
                units == Len(UnitsOfPage(n))
            IN  IF units = 0 THEN cs = <<>>
                ELSE /\ cs # <<>>
                     /\ cs[1].start_sentence = 0
                     /\ cs[Len(cs)].end_sentence = units - 1
                     /\ \A j \in 1..Len(cs) :
                           cs[j].start_sentence <= cs[j].end_sentence
                     /\ \A j \in 1..(Len(cs) - 1) :
                           /\ cs[j].end_sentence < cs[j + 1].end_sentence
                           /\ cs[j + 1].start_sentence <= cs[j].end_sentence + 1

\* A page has been made into three chunks or more, of which one starts
\* with a unit of the chunk before it and one with the unit after.
C28_Witness ==
    /\ pdf.op = "chunk_text"
    /\ Len(pdf.text_content) >= 1
    /\ LET cs == ChunksOfPage(1)
       IN  /\ Len(cs) >= 3
           /\ \E j \in 1..(Len(cs) - 1) :
                 cs[j + 1].start_sentence <= cs[j].end_sentence
           /\ cs[Len(cs)].end_sentence = Len(UnitsOfPage(1)) - 1

\* C29: the text of every chunk is its units, those of its page from
\* start_sentence to end_sentence, joined by single spaces.
C29_ChunkTextIsItsUnits ==
    pdf.op = "chunk_text" =>
        \A i \in 1..Len(pdf.chunks) :
            LET c == pdf.chunks[i]
            IN  c.text = Join(SubSeq(UnitsOfPage(c.page),
                                     c.start_sentence + 1, c.end_sentence + 1))

\* --------------------------------------------- claims about the conversation

\* C30: a chat in which the language model answered has appended two
\* entries to the conversation history, the user's message and then the
\* model's answer; a chat in which the search or the call of the language
\* model raised has returned a response that tells of an error and has left
\* the conversation history as it was.
C30_ChatHistory ==
    [][last'.op = "chat" =>
          /\ last'.outcome = "returned"
          /\ call'.llm = "returned" =>
                /\ Len(chatbot'.conversation_history)
                      = Len(chatbot.conversation_history) + 2
                /\ SubSeq(chatbot'.conversation_history, 1,
                          Len(chatbot.conversation_history))
                      = chatbot.conversation_history
                /\ LET n == Len(chatbot'.conversation_history)
                       user == chatbot'.conversation_history[n - 1]
                       assistant == chatbot'.conversation_history[n]
                   IN  /\ user.role = "user" /\ user.content = call'.message
                       /\ assistant.role = "assistant"
                       /\ assistant.content = chatbot'.response.raw_response
          /\ (call'.retrieval = "raised" \/ call'.llm = "raised") =>
                /\ "error" \in DOMAIN chatbot'.response
                /\ chatbot'.conversation_history = chatbot.conversation_history]_vars

\* After an exchange that is in the history, a chat has met an exception:
\* the search raised, or the language model did on a context that held a
\* reference.
C30_Witness ==
    /\ last.op = "chat"
    /\ "error" \in DOMAIN chatbot.response
    /\ Len(chatbot.conversation_history) = 2
    /\ chatbot.conversation_history[2].role = "assistant"
    /\ call.retrieval = "raised" \/ (call.llm = "raised" /\ ctx.references # <<>>)

====
